---- MODULE Spec2Model ----
(***************************************************************************)
(* A model of liftinstall's entrypoint, src/src/main.rs: the sequential    *)
(* startup of main() (logger, configuration, metadata bootstrap, port      *)
(* negotiation, one WebServer per resolved loopback address, the web view) *)
(* and the web view's bridge-message closure (decode, directory picker,    *)
(* script injection), together with the request handlers that share the    *)
(* Arc<RwLock<InstallerFramework>> built by main.                          *)
(*                                                                         *)
(* Text is modelled as a sequence of one-character strings, so that the    *)
(* JSON encoding of a path and the format! of the injected script are      *)
(* computed character by character.                                        *)
(***************************************************************************)
EXTENDS Naturals, Sequences, FiniteSets, TLC

\* ------------------------------------------------------------------ bounds

\* Longest path the directory picker returns in the model.
MaxPathLen == 2
\* Number of concurrent request-handler threads of the control service.
NumHandlers == 2
\* Number of bridge messages the hosted page sends in one run.
MaxMessages == 2

\* ------------------------------------------------------ environment's sets

\* Characters a chosen path is made of: an ordinary one, the separator, and
\* the two characters JSON must escape.
PathChars == {"x", "/", "\"", "\\"}

Paths == UNION {[1..n -> PathChars] : n \in 0..MaxPathLen}

\* What "localhost" can resolve to.
LoopbackAddrs == {"127.0.0.1", "::1"}

\* Ports the operating system may hand out for a bind to port 0.
Ports == {49152}

\* Content of a well-formed metadata.json.
MetaContents == {"db1", "db2"}

\* The metadata artifact beside the executable: absent, well-formed, malformed.
MetadataFiles ==
    {[exists |-> FALSE, parses |-> FALSE, content |-> "none"]}
    \cup {[exists |-> TRUE, parses |-> TRUE, content |-> c] : c \in MetaContents}
    \cup {[exists |-> TRUE, parses |-> FALSE, content |-> "none"]}

\* Results of "localhost:0".to_socket_addrs(): the candidates, in order.
AddressLists ==
    {<<>>} \cup {<<a>> : a \in LoopbackAddrs}
    \cup {<<a, b>> : <<a, b>> \in {p \in LoopbackAddrs \X LoopbackAddrs : p[1] # p[2]}}

\* Callback names the bundled page uses.
onDir == <<"o", "n", "D", "i", "r">>
CallbackNames == {onDir, <<"f">>}

\* Bridge messages, by the shape of their JSON text:
\*   ext     {"<tag>": {"callback_name": "<cb>"}}
\*   int     {"type": "<tag>", "callback_name": "<cb>"}
\*   nofield {"<tag>": {}}
\*   garbage text that is not JSON
NoMsg == [shape |-> "none", tag |-> "", callback_name |-> <<>>]
Messages ==
    {[shape |-> "ext", tag |-> "SelectInstallDir", callback_name |-> c] : c \in CallbackNames}
    \cup {[shape |-> "ext", tag |-> "Unknown", callback_name |-> onDir],
          [shape |-> "int", tag |-> "SelectInstallDir", callback_name |-> onDir],
          [shape |-> "nofield", tag |-> "SelectInstallDir", callback_name |-> <<>>],
          [shape |-> "garbage", tag |-> "", callback_name |-> <<>>]}

NoCommand == [variant |-> "None", callback_name |-> <<>>]
NoDialog == [kind |-> "None", v |-> <<>>, failed |-> FALSE]
NoFramework == [kind |-> "None", db |-> "none"]
NoAddress == [some |-> FALSE, addr |-> "", port |-> 0]
NoUrl == [scheme |-> "", host |-> "", port |-> 0]

Handlers == 1..NumHandlers

\* ------------------------------------------------------------------- state

VARIABLES
    windows,        \* cfg(windows): which picker the build holds
    metadata,       \* the metadata.json beside the executable
    pc,             \* main()'s position
    panic,          \* the message the process panicked with, "" while it lives
    steps,          \* the steps main() has executed, in order, with their outcome
    framework,      \* the InstallerFramework value
    arc_strong,     \* strong count of the Arc<RwLock<InstallerFramework>>
    listener,       \* the temporary TcpListener: its port, 0 when not bound
    target_port,    \* 0 until read from the temporary listener
    taken,          \* <<address, port>> pairs other processes hold
    addresses,      \* the candidates to_socket_addrs resolved
    addr_i,         \* the iterator's position in them
    servers,        \* Vec<WebServer>
    http_address,   \* Option<SocketAddr>
    url,            \* the Content::Url given to the web view
    disp,           \* the bridge closure's position
    depth,          \* invocations of the bridge closure in progress
    dialogsOpen,    \* directory pickers open
    msg,            \* the bridge message in hand (the last one, when Idle)
    command,        \* its decoding
    dialog,         \* what the picker returned for it
    injected,       \* scripts given to wv.eval while handling it
    nDispatched,    \* bridge messages handed to the closure so far
    nInjected,      \* scripts given to wv.eval so far
    readers,        \* handlers holding the RwLock for reading
    writer,         \* the handler holding it for writing, 0 when none
    partial         \* a write to the framework is half applied

mainVars == <<metadata, pc, panic, steps, framework, arc_strong, listener, target_port, taken,
              addresses, addr_i, servers, http_address, url>>
uiVars == <<disp, depth, dialogsOpen, msg, command, dialog, injected,
            nDispatched, nInjected>>
lockVars == <<readers, writer, partial>>
vars == <<windows, mainVars, uiVars, lockVars>>

Init ==
    /\ windows \in BOOLEAN
    /\ metadata \in MetadataFiles
    /\ pc = "setup_logger"
    /\ panic = ""
    /\ steps = <<>>
    /\ framework = NoFramework
    /\ arc_strong = 0
    /\ listener = 0
    /\ target_port = 0
    /\ taken = {}
    /\ addresses = <<>>
    /\ addr_i = 1
    /\ servers = <<>>
    /\ http_address = NoAddress
    /\ url = NoUrl
    /\ disp = "Idle"
    /\ depth = 0
    /\ dialogsOpen = 0
    /\ msg = NoMsg
    /\ command = NoCommand
    /\ dialog = NoDialog
    /\ injected = <<>>
    /\ nDispatched = 0
    /\ nInjected = 0
    /\ readers = {}
    /\ writer = 0
    /\ partial = FALSE

\* ----------------------------------------------------------------- helpers

\* One executed step of main(): the call, the address and port it was made
\* with (when it has any) and whether it returned Ok.
Step(name, addr, port, ok) == [step |-> name, addr |-> addr, port |-> port, ok |-> ok]

\* Result::log_expect (logging::LoggingErrors): the value on Ok, a logged
\* panic with the message on Err. Gives main()'s next position and the panic.
log_expect(ok, next, message) ==
    [pc |-> IF ok THEN next ELSE "terminated", panic |-> IF ok THEN "" ELSE message]

\* Mutant: the error is dropped and main() goes on.
expect_goes_on(ok, next, message) == [pc |-> next, panic |-> ""]

\* Result::expect and panic! of the standard library
expect(ok, next, message) ==
    [pc |-> IF ok THEN next ELSE "terminated", panic |-> IF ok THEN "" ELSE message]

\* InstallerFramework::new(config)
new(config) == [kind |-> "Fresh", db |-> "none"]

\* InstallerFramework::new_with_db(config, current_path): parses metadata.json
new_with_db(config, meta) ==
    [ok |-> meta.parses, value |-> [kind |-> "Existing", db |-> meta.content]]

\* Mutant: the metadata artifact is never looked at.
select_framework_ignores_metadata(meta) == [ok |-> TRUE, value |-> new("config")]

\* Mutant: an artifact that does not parse is replaced by a fresh state.
select_framework_recovers(meta) ==
    IF meta.exists /\ new_with_db("config", meta).ok
    THEN [ok |-> TRUE, value |-> new_with_db("config", meta).value]
    ELSE [ok |-> TRUE, value |-> new("config")]

\* if metadata_file.exists() { new_with_db(..).log_expect(..) } else { new(..) }
select_framework(meta) ==
    IF meta.exists
    THEN LET r == new_with_db("config", meta)
         IN  [ok |-> r.ok, value |-> IF r.ok THEN r.value ELSE NoFramework]
    ELSE [ok |-> TRUE, value |-> new("config")]

\* Mutant: the candidate keeps the port it was resolved with, "localhost:0".
set_port_keeps_zero(addr, port) == [some |-> TRUE, addr |-> addr, port |-> 0]

\* address.set_port(target_port)
set_port(addr, port) == [some |-> TRUE, addr |-> addr, port |-> port]

\* WebServer::with_addr(framework.clone(), address): binds a listener on the
\* address and serves the shared framework from it; Err when the bind fails.
with_addr(state, address) ==
    [ok |-> <<address.addr, address.port>> \notin taken
            /\ \A i \in 1..Len(servers) :
                   <<servers[i].addr, servers[i].port>> # <<address.addr, address.port>>,
     server |-> [addr |-> address.addr, port |-> address.port, state |-> state]]

\* Mutant: a candidate that does not bind is skipped.
after_bind_skips_failure(r) == [pc |-> "serve", panic |-> ""]

\* WebServer::with_addr(..).log_expect("Failed to bind to address")
after_bind(r) == log_expect(r.ok, "serve", "Failed to bind to address")

\* Mutant: the URL is built from the port the candidates were resolved with.
format_url_resolved_port(address) == [scheme |-> "http", host |-> "localhost", port |-> 0]

\* format!("http://localhost:{}", http_address.port())
format_url(address) == [scheme |-> "http", host |-> "localhost", port |-> address.port]

\* ------------------------------------------------------------ main: startup

\* logging::setup_logger().expect("Unable to setup logging!")
SetupLogger ==
    /\ pc = "setup_logger"
    /\ \E ok \in BOOLEAN :
          LET t == expect(ok, "from_toml_str", "Unable to setup logging!")
          IN  /\ pc' = t.pc /\ panic' = t.panic
              /\ steps' = Append(steps, Step("setup_logger", "", 0, ok))
    /\ UNCHANGED <<windows, metadata, framework, arc_strong, listener, target_port,
                   taken, addresses, addr_i, servers, http_address, url, uiVars, lockVars>>

\* Config::from_toml_str(RAW_CONFIG).log_expect(..)
ParseConfig ==
    /\ pc = "from_toml_str"
    /\ \E ok \in BOOLEAN :
          LET t == log_expect(ok, "current_exe", "Config file could not be read")
          IN  /\ pc' = t.pc /\ panic' = t.panic
              /\ steps' = Append(steps, Step("from_toml_str", "", 0, ok))
    /\ UNCHANGED <<windows, metadata, framework, arc_strong, listener, target_port,
                   taken, addresses, addr_i, servers, http_address, url, uiVars, lockVars>>

\* std::env::current_exe().log_expect(..), then .parent().log_expect(..)
CurrentExe ==
    /\ pc = "current_exe"
    /\ \E ok \in BOOLEAN :
          LET t == log_expect(ok, "bootstrap", "Current executable could not be found")
          IN  /\ pc' = t.pc /\ panic' = t.panic
              /\ steps' = Append(steps, Step("current_exe", "", 0, ok))
    /\ UNCHANGED <<windows, metadata, framework, arc_strong, listener, target_port,
                   taken, addresses, addr_i, servers, http_address, url, uiVars, lockVars>>

\* let framework = if metadata_file.exists() { .. } else { .. };
Bootstrap ==
    /\ pc = "bootstrap"
    /\ LET r == select_framework(metadata)
           t == log_expect(r.ok, "bind_temp", "Unable to parse metadata")
       IN  /\ framework' = r.value
           /\ pc' = t.pc
           /\ panic' = t.panic
           /\ steps' = Append(steps, Step(IF metadata.exists THEN "new_with_db" ELSE "new",
                                          "", 0, r.ok))
    /\ UNCHANGED <<windows, metadata, arc_strong, listener, target_port,
                   taken, addresses, addr_i, servers, http_address, url, uiVars, lockVars>>

\* TcpListener::bind("127.0.0.1:0").log_expect(..): the system picks the port
BindTemp ==
    /\ pc = "bind_temp"
    /\ \E ok \in BOOLEAN, p \in Ports :
          LET t == log_expect(ok, "local_addr", "At least one local address should be free")
          IN  /\ listener' = IF ok THEN p ELSE 0
              /\ pc' = t.pc
              /\ panic' = t.panic
              /\ steps' = Append(steps, Step("bind_temp", "127.0.0.1", IF ok THEN p ELSE 0, ok))
    /\ UNCHANGED <<windows, metadata, framework, arc_strong, target_port,
                   taken, addresses, addr_i, servers, http_address, url, uiVars, lockVars>>

\* listener.local_addr().log_expect(..).port(); the listener is dropped at the
\* end of the block (and by the unwinding of a panic).
LocalAddr ==
    /\ pc = "local_addr"
    /\ \E ok \in BOOLEAN :
          LET t == log_expect(ok, "to_socket_addrs",
                              "Should be able to pull address from listener")
          IN  /\ target_port' = IF ok THEN listener ELSE target_port
              /\ pc' = t.pc
              /\ panic' = t.panic
              /\ steps' = Append(steps, Step("local_addr", "127.0.0.1", listener, ok))
    /\ listener' = 0
    /\ UNCHANGED <<windows, metadata, framework, arc_strong,
                   taken, addresses, addr_i, servers, http_address, url, uiVars, lockVars>>

\* "localhost:0".to_socket_addrs().log_expect("No localhost address found")
Resolve ==
    /\ pc = "to_socket_addrs"
    /\ \E ok \in BOOLEAN, found \in AddressLists :
          LET t == log_expect(ok, "wrap", "No localhost address found")
          IN  /\ addresses' = IF ok THEN found ELSE addresses
              /\ pc' = t.pc
              /\ panic' = t.panic
              /\ steps' = Append(steps, Step("to_socket_addrs", "", 0, ok))
    /\ UNCHANGED <<windows, metadata, framework, arc_strong, listener, target_port,
                   taken, addr_i, servers, http_address, url, uiVars, lockVars>>

\* let mut servers = Vec::new(); let mut http_address = None;
\* let framework = Arc::new(RwLock::new(framework));
Wrap ==
    /\ pc = "wrap"
    /\ servers' = <<>>
    /\ http_address' = NoAddress
    /\ arc_strong' = 1
    /\ pc' = "serve"
    /\ steps' = Append(steps, Step("wrap", "", 0, TRUE))
    /\ UNCHANGED <<windows, metadata, panic, framework, listener, target_port,
                   taken, addresses, addr_i, url, uiVars, lockVars>>

\* Mutant: every server is given a handle of its own, around a copy of the
\* framework.
arc_clone_new_handle(strong) == [handle |-> "copy", strong |-> strong]

\* Mutant: the handle is moved into the server, not cloned.
arc_clone_moves(strong) == [handle |-> "arc", strong |-> strong]

\* framework.clone() on the Arc: one more pointer to the same allocation
arc_clone(strong) == [handle |-> "arc", strong |-> strong + 1]

\* One turn of  for mut address in addresses { .. }
ServeNext ==
    /\ pc = "serve"
    /\ addr_i <= Len(addresses)
    /\ LET address == set_port(addresses[addr_i], target_port)
           c == arc_clone(arc_strong)
           r == with_addr(c.handle, address)
           t == after_bind(r)
       IN  /\ pc' = t.pc
           /\ panic' = t.panic
           /\ steps' = Append(steps, Step("with_addr", address.addr, address.port, r.ok))
           /\ servers' = IF r.ok THEN Append(servers, r.server) ELSE servers
           /\ http_address' = IF r.ok THEN address ELSE http_address
           /\ arc_strong' = IF r.ok THEN c.strong ELSE arc_strong
    /\ addr_i' = addr_i + 1
    /\ UNCHANGED <<windows, metadata, framework, listener, target_port,
                   taken, addresses, url, uiVars, lockVars>>

\* The loop is over: match http_address { Some(v) => v, None => panic!(..) }
MatchHttpAddress ==
    /\ pc = "serve"
    /\ addr_i > Len(addresses)
    /\ LET t == expect(http_address.some, "format_url", "No HTTP address found")
       IN  pc' = t.pc /\ panic' = t.panic
    /\ UNCHANGED <<windows, metadata, steps, framework, arc_strong, listener, target_port,
                   taken, addresses, addr_i, servers, http_address, url, uiVars, lockVars>>

\* let http_address = format!("http://localhost:{}", http_address.port());
FormatUrl ==
    /\ pc = "format_url"
    /\ url' = format_url(http_address)
    /\ pc' = "launch"
    /\ UNCHANGED <<windows, metadata, steps, panic, framework, arc_strong, listener, target_port,
                   taken, addresses, addr_i, servers, http_address, uiVars, lockVars>>

\* run(title, Content::Url(http_address), ..): the web view opens and its
\* event loop starts.
RunWebView ==
    /\ pc = "launch"
    /\ pc' = "run"
    /\ steps' = Append(steps, Step("run", "", 0, TRUE))
    /\ UNCHANGED <<windows, metadata, panic, framework, arc_strong, listener, target_port,
                   taken, addresses, addr_i, servers, http_address, url, uiVars, lockVars>>

\* The window is closed: run returns, main returns.
CloseWindow ==
    /\ pc = "run"
    /\ disp = "Idle"
    /\ pc' = "exited"
    /\ UNCHANGED <<windows, metadata, steps, panic, framework, arc_strong, listener, target_port,
                   taken, addresses, addr_i, servers, http_address, url, uiVars, lockVars>>

\* Another process binds the negotiated port on a candidate address that this
\* process has not bound yet (the temporary listener has been released).
OtherProcessClaims(a) ==
    /\ pc \in {"wrap", "serve"}
    /\ target_port # 0
    /\ <<a, target_port>> \notin taken
    /\ \E i \in addr_i..Len(addresses) : addresses[i] = a
    /\ taken' = taken \cup {<<a, target_port>>}
    /\ UNCHANGED <<windows, metadata, steps, pc, panic, framework, arc_strong, listener, target_port,
                   addresses, addr_i, servers, http_address, url, uiVars, lockVars>>

\* ------------------------------------------------- the bridge closure: text

\* serde_json's escape of one character of a string
escape_char(c) ==
    CASE c = "\"" -> <<"\\", "\"">>
      [] c = "\\" -> <<"\\", "\\">>
      [] c = "\n" -> <<"\\", "n">>
      [] c = "\r" -> <<"\\", "r">>
      [] c = "\t" -> <<"\\", "t">>
      [] OTHER -> <<c>>

RECURSIVE escape_str(_)
escape_str(s) ==
    IF s = <<>> THEN <<>> ELSE escape_char(Head(s)) \o escape_str(Tail(s))

\* Mutant: the path is put between quotes as it is.
to_string_unescaped(s) == <<"\"">> \o s \o <<"\"">>

\* serde_json::to_string(&result), result a String
to_string(s) == <<"\"">> \o escape_str(s) \o <<"\"">>

\* format!("{}({});", callback_name, result)
format_command(callback_name, result) ==
    callback_name \o <<"(">> \o result \o <<")", ";">>

\* Mutant: the variant's name is not looked at.
from_str_any_tag(m) ==
    [ok |-> m.shape = "ext",
     value |-> [variant |-> "SelectInstallDir", callback_name |-> m.callback_name]]

\* serde_json::from_str::<CallbackType>(msg). CallbackType derives Deserialize
\* with no serde attribute, so a value is its variant's name keyed to the
\* variant's fields: only the shape {"SelectInstallDir": {"callback_name": ..}}
\* decodes.
from_str(m) ==
    [ok |-> m.shape = "ext" /\ m.tag = "SelectInstallDir",
     value |-> [variant |-> "SelectInstallDir", callback_name |-> m.callback_name]]

\* What the picker can return. cfg(windows): nfd::open_pick_folder(None), a
\* Result<Response>; otherwise wv.dialog(Dialog::ChooseDirectory, ..), a
\* String that is empty when the user cancels.
DialogOutcomes(w) ==
    IF w
    THEN {[kind |-> "Err", v |-> <<>>, failed |-> TRUE]}
         \cup {[kind |-> k, v |-> <<>>, failed |-> FALSE] : k \in {"Cancel", "OkayMultiple"}}
         \cup {[kind |-> "Okay", v |-> p, failed |-> FALSE] : p \in Paths}
    ELSE {[kind |-> "String", v |-> p, failed |-> FALSE] : p \in Paths}
         \cup {[kind |-> "String", v |-> <<>>, failed |-> TRUE]}

\* Mutant: the length of the result is not tested.
after_dialog_injects_empty(o) ==
    CASE o.kind = "Err" -> "terminated"
      [] o.kind \in {"Cancel", "OkayMultiple"} -> "Idle"
      [] OTHER -> "Injecting"

\* Mutant: every Ok response of the picker is taken for a chosen folder.
after_dialog_any_response(o) ==
    CASE o.kind = "Err" -> "terminated"
      [] o.kind = "Cancel" -> "Idle"
      [] o.kind = "OkayMultiple" -> "Injecting"
      [] OTHER -> IF Len(o.v) > 0 THEN "Injecting" ELSE "Idle"

\* Where the closure goes with the picker's answer: log_expect of the Result
\* and the match on Response (windows), then  if result.len() > 0.
after_dialog(o) ==
    CASE o.kind = "Err" -> "terminated"
      [] o.kind \in {"Cancel", "OkayMultiple"} -> "Idle"
      [] OTHER -> IF Len(o.v) > 0 THEN "Injecting" ELSE "Idle"

\* Mutant: messages are taken before run(..) is called.
webview_running_before_run == pc \in {"launch", "run"}

\* Mutant: the closure is entered again while a call is in progress.
can_invoke_reentrant == TRUE

\* run(..) calls the closure from the web view's event loop: only while run
\* is executing ..
webview_running == pc = "run"

\* .. and one call at a time: the closure is FnMut and holds &mut WebView, and
\* the picker blocks the calling thread until the user has decided.
can_invoke == disp = "Idle"

\* ---------------------------------------------- the bridge closure: actions

\* The hosted page sends a bridge message: the web view calls the closure.
Receive(m) ==
    /\ webview_running
    /\ can_invoke
    /\ nDispatched < MaxMessages
    /\ disp' = "Dispatching"
    /\ depth' = depth + 1
    /\ msg' = m
    /\ command' = NoCommand
    /\ dialog' = NoDialog
    /\ injected' = <<>>
    /\ nDispatched' = nDispatched + 1
    /\ UNCHANGED <<windows, mainVars, dialogsOpen, nInjected, lockVars>>

\* serde_json::from_str(msg).log_expect(..); match command { SelectInstallDir
\* { callback_name } => the picker opens
Dispatch ==
    /\ pc = "run"
    /\ disp = "Dispatching"
    /\ LET r == from_str(msg)
           t == log_expect(r.ok, "run", "Unable to parse string")
       IN  /\ pc' = t.pc
           /\ panic' = t.panic
           /\ command' = IF r.ok THEN r.value ELSE command
           /\ disp' = IF r.ok THEN "NativeDialogOpen" ELSE disp
           /\ dialogsOpen' = IF r.ok THEN dialogsOpen + 1 ELSE dialogsOpen
    /\ UNCHANGED <<windows, metadata, steps, framework, arc_strong, listener, target_port,
                   taken, addresses, addr_i, servers, http_address, url,
                   depth, msg, dialog, injected, nDispatched, nInjected, lockVars>>

\* The picker returns.
DialogReturns(o) ==
    /\ pc = "run"
    /\ disp = "NativeDialogOpen"
    /\ o \in DialogOutcomes(windows)
    /\ dialog' = o
    /\ dialogsOpen' = dialogsOpen - 1
    /\ LET next == after_dialog(o)
           t == log_expect(next # "terminated", "run", "Unable to open folder dialog")
       IN  /\ pc' = t.pc
           /\ panic' = t.panic
           /\ disp' = IF next = "terminated" THEN disp ELSE next
           /\ depth' = IF next = "Idle" THEN depth - 1 ELSE depth
    /\ UNCHANGED <<windows, metadata, steps, framework, arc_strong, listener, target_port,
                   taken, addresses, addr_i, servers, http_address, url,
                   msg, command, injected, nDispatched, nInjected, lockVars>>

\* Mutant: the script is submitted twice.
eval_twice(scripts, js) == Append(Append(scripts, js), js)

\* wv.eval(&command): the script is submitted to the hosted page
eval(scripts, js) == Append(scripts, js)

\* Mutant: the closure also records the chosen folder in the framework,
\* without taking the lock.
Inject_stores_path ==
    /\ pc = "run"
    /\ disp = "Injecting"
    /\ injected' = eval(injected,
                        format_command(command.callback_name, to_string(dialog.v)))
    /\ nInjected' = nInjected + (Len(injected') - Len(injected))
    /\ disp' = "Idle"
    /\ depth' = depth - 1
    /\ partial' = TRUE
    /\ UNCHANGED <<windows, mainVars, dialogsOpen, msg, command, dialog,
                   nDispatched, readers, writer>>

\* serde_json::to_string, format!, wv.eval(&command); the closure returns.
Inject ==
    /\ pc = "run"
    /\ disp = "Injecting"
    /\ injected' = eval(injected,
                        format_command(command.callback_name, to_string(dialog.v)))
    /\ nInjected' = nInjected + (Len(injected') - Len(injected))
    /\ disp' = "Idle"
    /\ depth' = depth - 1
    /\ UNCHANGED <<windows, mainVars, dialogsOpen, msg, command, dialog,
                   nDispatched, lockVars>>

\* ------------------------------------------ the control service's handlers

\* Mutant: the servers are driven from the web view's event loop, which stands
\* still while the picker is open.
ServiceAlive_on_ui_thread ==
    servers # <<>> /\ pc \notin {"terminated", "exited"} /\ disp # "NativeDialogOpen"

\* The servers answer requests from the moment they are bound until the
\* process ends.
ServiceAlive == servers # <<>> /\ pc \notin {"terminated", "exited"}

\* Mutant: readers are let in beside a writer.
rwlock_can_read_beside_writer == TRUE

\* RwLock::read: granted unless a writer holds the lock
rwlock_can_read == writer = 0

\* RwLock::write: granted when nobody holds the lock
rwlock_can_write == writer = 0 /\ readers = {}

\* A query takes the read lock ..
BeginRead(h) ==
    /\ ServiceAlive
    /\ h \notin readers
    /\ writer # h
    /\ rwlock_can_read
    /\ readers' = readers \cup {h}
    /\ UNCHANGED <<windows, mainVars, uiVars, writer, partial>>

\* .. and releases it.
EndRead(h) ==
    /\ ServiceAlive
    /\ h \in readers
    /\ readers' = readers \ {h}
    /\ UNCHANGED <<windows, mainVars, uiVars, writer, partial>>

\* A mutation takes the write lock ..
BeginWrite(h) ==
    /\ ServiceAlive
    /\ h \notin readers
    /\ rwlock_can_write
    /\ writer' = h
    /\ UNCHANGED <<windows, mainVars, uiVars, readers, partial>>

\* .. changes the framework, one part after the other ..
WriteStep(h) ==
    /\ ServiceAlive
    /\ writer = h
    /\ ~partial
    /\ partial' = TRUE
    /\ UNCHANGED <<windows, mainVars, uiVars, readers, writer>>

\* .. and releases the lock when the change is whole.
EndWrite(h) ==
    /\ ServiceAlive
    /\ writer = h
    /\ partial
    /\ partial' = FALSE
    /\ writer' = 0
    /\ UNCHANGED <<windows, mainVars, uiVars, readers>>

\* ----------------------------------------------------------- specification

Next ==
    \/ SetupLogger
    \/ ParseConfig
    \/ CurrentExe
    \/ Bootstrap
    \/ BindTemp
    \/ LocalAddr
    \/ Resolve
    \/ Wrap
    \/ ServeNext
    \/ MatchHttpAddress
    \/ FormatUrl
    \/ RunWebView
    \/ CloseWindow
    \/ \E a \in LoopbackAddrs : OtherProcessClaims(a)
    \/ \E m \in Messages : Receive(m)
    \/ Dispatch
    \/ \E o \in DialogOutcomes(windows) : DialogReturns(o)
    \/ Inject
    \/ \E h \in Handlers : BeginRead(h)
    \/ \E h \in Handlers : EndRead(h)
    \/ \E h \in Handlers : BeginWrite(h)
    \/ \E h \in Handlers : WriteStep(h)
    \/ \E h \in Handlers : EndWrite(h)

Spec == Init /\ [][Next]_vars

\* ------------------------------------------------------------------ claims

BeforeBootstrap == {"setup_logger", "from_toml_str", "current_exe", "bootstrap"}
AfterLoop == {"format_url", "launch", "run", "exited"}

\* The state the specification expects for a metadata artifact that is absent
\* or well-formed.
ExpectedState(meta) ==
    IF meta.exists THEN [kind |-> "Existing", db |-> meta.content]
    ELSE [kind |-> "Fresh", db |-> "none"]

Malformed == metadata.exists /\ ~metadata.parses

\* C1: Bootstrap selects the application state from the metadata artifact
\* alone. With no artifact the state is Fresh, with a well-formed one it is
\* Existing with the parsed content; in both cases the step after Bootstrap is
\* the first step of endpoint negotiation (the temporary bind), and the state
\* stays the selected one while the process lives.
C1_BootstrapSelectsState ==
    /\ [][(pc = "bootstrap" /\ ~Malformed)
            => /\ framework' = ExpectedState(metadata)
               /\ pc' = "bind_temp"
               /\ panic' = ""]_vars
    /\ []((pc \notin BeforeBootstrap /\ pc # "terminated")
            => framework = ExpectedState(metadata))

C1_Witness ==
    /\ pc = "bind_temp"
    /\ metadata.exists
    /\ framework = [kind |-> "Existing", db |-> "db2"]

\* C2: with a malformed metadata artifact Bootstrap panics, and in no state of
\* the run is a listener bound, a port negotiated, a server started, the
\* framework wrapped, the URL computed or the web view launched.
C2_MalformedMetadataIsFatal ==
    Malformed =>
        /\ pc \in BeforeBootstrap \cup {"terminated"}
        /\ panic \in {"", "Unable to setup logging!", "Config file could not be read",
                      "Current executable could not be found", "Unable to parse metadata"}
        /\ framework = NoFramework
        /\ listener = 0
        /\ target_port = 0
        /\ servers = <<>>
        /\ arc_strong = 0
        /\ url = NoUrl
        /\ nDispatched = 0

C2_Witness ==
    /\ Malformed
    /\ pc = "terminated"
    /\ panic = "Unable to parse metadata"

\* C3 as claimed: once one candidate has bound on the negotiated port, a
\* failure to bind another candidate does not abort the process.
C3_Original_PartialBindTolerated ==
    servers # <<>> => panic # "Failed to bind to address"

\* C3 as amended: the candidates are tried in order, each on the negotiated
\* port; the first one that does not bind ends the process, whether or not
\* another has bound; with no candidate at all the process ends too. Startup
\* goes on to the web view only when every candidate has bound.
C3_EveryCandidateMustBind ==
    /\ pc = "serve" => Len(servers) = addr_i - 1
    /\ panic = "Failed to bind to address"
         => /\ pc = "terminated"
            /\ Len(servers) = addr_i - 2
            /\ <<addresses[addr_i - 1], target_port>> \in taken
    /\ panic = "No HTTP address found" => pc = "terminated" /\ addresses = <<>>
    /\ pc \in AfterLoop
         => /\ servers # <<>>
            /\ Len(servers) = Len(addresses)
    /\ \A i \in 1..Len(servers) :
          /\ servers[i].addr = addresses[i]
          /\ servers[i].port = target_port

C3_Witness ==
    /\ panic = "Failed to bind to address"
    /\ Len(servers) = 1
    /\ Len(addresses) = 2

\* Reading a JSON string literal back: the characters between its quotes,
\* with every escape undone; not ok when a quote or a backslash stands alone.
JsonFail == [ok |-> FALSE, v |-> <<>>]

RECURSIVE JsonUnescape(_)
JsonUnescape(t) ==
    IF t = <<>> THEN [ok |-> TRUE, v |-> <<>>]
    ELSE IF Head(t) = "\"" THEN JsonFail
    ELSE IF Head(t) = "\\"
         THEN IF Len(t) < 2 \/ t[2] \notin {"\"", "\\", "/", "n", "r", "t"}
              THEN JsonFail
              ELSE LET rest == JsonUnescape(SubSeq(t, 3, Len(t)))
                       c == CASE t[2] = "n" -> "\n"
                              [] t[2] = "r" -> "\r"
                              [] t[2] = "t" -> "\t"
                              [] OTHER -> t[2]
                   IN  IF rest.ok THEN [ok |-> TRUE, v |-> <<c>> \o rest.v] ELSE JsonFail
    ELSE LET rest == JsonUnescape(Tail(t))
         IN  IF rest.ok THEN [ok |-> TRUE, v |-> <<Head(t)>> \o rest.v] ELSE JsonFail

JsonStringValue(lit) ==
    IF Len(lit) >= 2 /\ lit[1] = "\"" /\ lit[Len(lit)] = "\""
    THEN JsonUnescape(SubSeq(lit, 2, Len(lit) - 1))
    ELSE JsonFail

\* The message in hand decoded to SelectInstallDir and the picker returned a
\* non-empty path.
Selected ==
    /\ command.variant = "SelectInstallDir"
    /\ dialog.kind \in {"Okay", "String"}
    /\ dialog.v # <<>>

\* The picker was cancelled: an empty result, or a response other than Okay.
Cancelled ==
    \/ dialog.kind \in {"Cancel", "OkayMultiple"}
    \/ dialog.kind \in {"Okay", "String"} /\ dialog.v = <<>>

\* C4: when a SelectInstallDir command with callback name C has been handled
\* and the user chose the non-empty path D, exactly one script was injected
\* for the message: C, "(", a JSON string literal whose value is D, ");". The
\* path /x under the callback onDir gives onDir("/x"); with the slash as it is.
C4_SelectedPathIsInjected ==
    /\ (Selected /\ disp = "Injecting") => injected = <<>>
    /\ (Selected /\ disp = "Idle") =>
          /\ command.callback_name = msg.callback_name
          /\ Len(injected) = 1
          /\ LET script == injected[1]
                 n == Len(msg.callback_name)
             IN  /\ Len(script) >= n + 5
                 /\ SubSeq(script, 1, n) = msg.callback_name
                 /\ script[n + 1] = "("
                 /\ SubSeq(script, Len(script) - 1, Len(script)) = <<")", ";">>
                 /\ JsonStringValue(SubSeq(script, n + 2, Len(script) - 2))
                      = [ok |-> TRUE, v |-> dialog.v]
          /\ (msg.callback_name = onDir /\ dialog.v = <<"/", "x">>)
                => injected[1] = <<"o", "n", "D", "i", "r", "(", "\"", "/", "x", "\"", ")", ";">>

C4_Witness ==
    /\ disp = "Idle"
    /\ Selected
    /\ dialog.v = <<"\\", "\"">>
    /\ injected = <<onDir \o <<"(", "\"", "\\", "\\", "\\", "\"", "\"", ")", ";">>>>

\* C5: when the picker is cancelled nothing is injected for the message, the
\* process lives on (no panic), the closure has returned, and while the web
\* view runs the next message can be taken.
C5_CancelIsSilent ==
    Cancelled =>
        /\ injected = <<>>
        /\ disp = "Idle"
        /\ depth = 0
        /\ dialogsOpen = 0
        /\ panic = ""
        /\ pc \in {"run", "exited"}
        /\ (pc = "run" /\ nDispatched < MaxMessages)
              => \A m \in Messages : ENABLED Receive(m)

C5_Witness ==
    /\ Cancelled
    /\ dialog.kind = "Cancel"
    /\ pc = "run"
    /\ nDispatched = 1
    /\ nInjected = 0
    /\ ENABLED Receive([shape |-> "ext", tag |-> "SelectInstallDir", callback_name |-> onDir])

\* The message in hand does not decode to a command.
Undecodable == msg # NoMsg /\ ~from_str(msg).ok

\* C6: a bridge message that does not decode (an unknown variant name, a
\* missing field, a text that is not JSON) ends the process with the panic of
\* the decoding: no picker is opened for it, nothing is injected for it, and
\* the closure never gets back to Idle.
C6_UndecodableMessageIsFatal ==
    /\ []((msg # NoMsg /\ (msg.shape \in {"garbage", "nofield"} \/ msg.tag # "SelectInstallDir"))
            => Undecodable)
    /\ [](Undecodable =>
            /\ disp = "Dispatching"
            /\ command = NoCommand
            /\ dialog = NoDialog
            /\ dialogsOpen = 0
            /\ injected = <<>>
            /\ pc \in {"run", "terminated"}
            /\ pc = "terminated" => panic = "Unable to parse string")
    /\ [][(Undecodable /\ (uiVars' # uiVars \/ pc' # pc))
            => /\ pc' = "terminated"
               /\ panic' = "Unable to parse string"
               /\ uiVars' = uiVars]_vars

C6_Witness ==
    /\ msg.tag = "Unknown"
    /\ pc = "terminated"
    /\ panic = "Unable to parse string"

DispatcherStates == {"Idle", "Dispatching", "NativeDialogOpen", "Injecting"}

\* C7 as claimed: the closure's position changes only along Idle ->
\* Dispatching -> NativeDialogOpen -> Injecting -> Idle, or Dispatching -> Idle.
C7_Original_Transitions ==
    [][disp' # disp =>
         <<disp, disp'>> \in {<<"Idle", "Dispatching">>,
                              <<"Dispatching", "NativeDialogOpen">>,
                              <<"NativeDialogOpen", "Injecting">>,
                              <<"Injecting", "Idle">>,
                              <<"Dispatching", "Idle">>}]_vars

\* C7 as amended: the positions are Idle, Dispatching, NativeDialogOpen and
\* Injecting, and the only changes are Idle -> Dispatching (a message
\* arrives), Dispatching -> NativeDialogOpen, NativeDialogOpen -> Injecting
\* (the user chose a non-empty path), Injecting -> Idle (the script is
\* submitted) and NativeDialogOpen -> Idle (the user cancelled, which is known
\* only when the picker returns). A cancellation never passes through
\* Injecting.
C7_Transitions ==
    /\ [](disp \in DispatcherStates)
    /\ [](disp = "Injecting" => Selected /\ ~Cancelled)
    /\ [][disp' # disp =>
            \/ disp = "Idle" /\ disp' = "Dispatching" /\ nDispatched' = nDispatched + 1
            \/ disp = "Dispatching" /\ disp' = "NativeDialogOpen"
            \/ disp = "NativeDialogOpen" /\ disp' = "Injecting" /\ Selected'
            \/ disp = "Injecting" /\ disp' = "Idle" /\ nInjected' = nInjected + 1
            \/ disp = "NativeDialogOpen" /\ disp' = "Idle" /\ Cancelled'
                 /\ nInjected' = nInjected]_vars

C7_Witness ==
    /\ disp = "Idle"
    /\ dialog = [kind |-> "String", v |-> <<>>, failed |-> FALSE]
    /\ nDispatched = 2
    /\ nInjected = 1

\* C8: one directory-selection flow at a time. At most one call of the closure
\* is in progress and at most one picker is open; a message is handed to the
\* closure, and a picker opened, only when no call is in progress and no
\* picker is open.
C8_OneFlowInFlight ==
    /\ [](depth <= 1 /\ dialogsOpen <= 1)
    /\ [](dialogsOpen = 1 => disp = "NativeDialogOpen" /\ depth = 1)
    /\ [](depth = 0 <=> disp = "Idle")
    /\ [][nDispatched' # nDispatched
            => disp = "Idle" /\ depth = 0 /\ dialogsOpen = 0]_vars
    /\ [][dialogsOpen' > dialogsOpen => dialogsOpen = 0 /\ depth = 1]_vars

C8_Witness ==
    /\ dialogsOpen = 1
    /\ disp = "NativeDialogOpen"
    /\ nDispatched = 2

\* C9: any number of handlers hold the lock for reading together, and a
\* handler that wants to read is let in whenever no writer holds the lock,
\* however many readers there are; a writer holds it alone; no reader is
\* inside while a write is half applied.
C9_ReadersShareWriterExcludes ==
    /\ writer \in 0..NumHandlers
    /\ writer # 0 => readers = {}
    /\ readers # {} => ~partial
    /\ partial => writer # 0
    /\ \A h \in Handlers :
          (ServiceAlive /\ writer = 0 /\ h \notin readers) => ENABLED BeginRead(h)

C9_Witness ==
    /\ Cardinality(readers) = NumHandlers
    /\ NumHandlers >= 2

\* The web view has been launched.
UiHostLaunched ==
    \/ pc \in {"run", "exited"}
    \/ panic \in {"Unable to parse string", "Unable to open folder dialog"}

\* C10 as claimed: the framework is wrapped before endpoint negotiation
\* begins.
C10_Original_WrapBeforeNegotiation ==
    (listener # 0 \/ target_port # 0 \/ addresses # <<>>) => arc_strong > 0

\* C10 as amended: startup runs in the order Bootstrap, discovery of the port
\* and resolution of the candidates, wrapping of the framework, start of the
\* servers, computation of the URL, launch of the web view. The web view is
\* launched only after the framework is wrapped and the servers are started,
\* and no bridge message is handed to the closure before the launch.
C10_StartupOrder ==
    /\ (listener # 0 \/ target_port # 0) => framework # NoFramework
    /\ arc_strong > 0
         => /\ target_port # 0
            /\ listener = 0
            /\ pc \notin BeforeBootstrap \cup {"bind_temp", "local_addr", "to_socket_addrs", "wrap"}
    /\ servers # <<>> => arc_strong = Len(servers) + 1
    /\ url # NoUrl
         => /\ servers # <<>>
            /\ addr_i > Len(addresses)
            /\ url.port = target_port
    /\ pc = "launch" => url # NoUrl
    /\ UiHostLaunched => url # NoUrl /\ arc_strong > 0 /\ servers # <<>>
    /\ (nDispatched > 0 \/ disp # "Idle" \/ msg # NoMsg) => UiHostLaunched

C10_Witness ==
    /\ pc = "run"
    /\ nDispatched = 1
    /\ Len(servers) = 2
    /\ framework.kind = "Existing"

\* The steps of main() that can fail.
FallibleSteps ==
    {"setup_logger", "from_toml_str", "current_exe", "new_with_db", "bind_temp",
     "local_addr", "to_socket_addrs", "with_addr"}

\* C11 as claimed: no fallible step, the service bind included, is attempted
\* twice in a run.
C11_Original_EachStepOnce ==
    \A i, j \in 1..Len(steps) :
        (i < j /\ steps[i].step \in FallibleSteps) => steps[i].step # steps[j].step

\* C11 as amended: every fallible startup step is attempted at most once per
\* run, the service bind at most once for each candidate address; a step that
\* fails is the last step of the run: the process is terminated with a panic
\* in that very step, and a terminated process takes no step at all.
C11_FailFastNoRetry ==
    /\ [](\A i, j \in 1..Len(steps) :
            (i < j /\ steps[i].step = steps[j].step)
               => /\ steps[i].step = "with_addr"
                  /\ steps[i].addr # steps[j].addr)
    /\ [](\A i \in 1..Len(steps) :
            ~steps[i].ok => /\ i = Len(steps)
                            /\ steps[i].step \in FallibleSteps
                            /\ pc = "terminated"
                            /\ panic # "")
    /\ [][pc # "terminated"]_vars

C11_Witness ==
    /\ Len(steps) = 10
    /\ steps[9].step = "with_addr" /\ steps[9].ok
    /\ steps[10].step = "with_addr" /\ ~steps[10].ok
    /\ pc = "terminated"

\* C12: the temporary listener is released before the first bind of a server
\* is attempted, and every such bind is made on the port that was read from the
\* temporary listener (the port it was bound on).
C12_BindReleaseReuse ==
    /\ target_port # 0 => listener = 0
    /\ pc \in {"wrap", "serve"} => listener = 0 /\ target_port \in Ports
    /\ \A i \in 1..Len(steps) :
          steps[i].step = "with_addr"
             => /\ listener = 0
                /\ steps[i].port = target_port
                /\ \E j, k \in 1..Len(steps) :
                      /\ k < j /\ j < i
                      /\ steps[k].step = "bind_temp" /\ steps[k].ok
                      /\ steps[j].step = "local_addr" /\ steps[j].ok
                      /\ steps[k].port = steps[i].port
                      /\ steps[j].port = steps[i].port
                      /\ steps[i].port \in Ports

\* The state C12 says is reachable: another process took the port after the
\* release, and the first bind of a server fails on it.
C12_Witness ==
    /\ panic = "Failed to bind to address"
    /\ servers = <<>>
    /\ steps[Len(steps)] = Step("with_addr", addresses[1], target_port, FALSE)
    /\ <<addresses[1], target_port>> \in taken
    /\ listener = 0

\* C13: the URL given to the web view is http://localhost:<P>, P the
\* negotiated port, and whenever the web view has been launched a server is
\* bound on that port.
C13_UrlNamesNegotiatedPort ==
    /\ url # NoUrl
         => /\ url = [scheme |-> "http", host |-> "localhost", port |-> target_port]
            /\ target_port \in Ports
    /\ UiHostLaunched
         => /\ url # NoUrl
            /\ \E i \in 1..Len(servers) : servers[i].port = url.port

C13_Witness ==
    /\ pc = "run"
    /\ url = [scheme |-> "http", host |-> "localhost", port |-> 49152]
    /\ Len(servers) = 1
    /\ servers[1].addr = "::1"

\* C14 as claimed: a failure of the native directory dialog during a
\* SelectInstallDir dispatch terminates the process on every platform, and no
\* script is injected.
C14_DialogFailureIsFatal ==
    dialog.failed => pc = "terminated" /\ injected = <<>>

\* C15: whenever the web view runs there is one server for each resolved
\* candidate, in the candidates' order, each bound on the negotiated port and
\* each holding the one handle of the framework; and the servers stay as they
\* are for as long as the web view runs.
C15_OneInstancePerCandidate ==
    /\ [](pc = "run"
            => /\ Len(servers) = Len(addresses)
               /\ target_port \in Ports
               /\ \A i \in 1..Len(servers) :
                     servers[i] = [addr |-> addresses[i], port |-> target_port,
                                   state |-> "arc"])
    /\ [][pc = "run" => servers' = servers]_vars

C15_Witness ==
    /\ pc = "run"
    /\ disp = "NativeDialogOpen"
    /\ Len(servers) = 2
    /\ servers[1].addr # servers[2].addr
    /\ servers[1].port = servers[2].port
    /\ servers[1].state = servers[2].state

\* How often main() has executed one of the given steps.
Count(names) == Cardinality({i \in 1..Len(steps) : steps[i].step \in names})

\* C16 as claimed, its last part: the servers are the only holders of the
\* handle.
C16_Original_OnlyServersHold ==
    servers # <<>> => arc_strong = Len(servers)

\* C16 as amended: the framework is created once per run and wrapped in one
\* handle; once it is wrapped main() neither takes the lock nor changes the
\* framework; the holders of the handle are the servers, one clone each, and
\* main()'s own binding, which stays alive, unused, until main() returns.
C16_OneStateOneHandle ==
    /\ [](/\ Count({"new", "new_with_db"}) <= 1
          /\ Count({"wrap"}) <= 1
          /\ framework # NoFramework => Count({"new", "new_with_db"}) = 1
          /\ arc_strong > 0 <=> Count({"wrap"}) = 1
          /\ arc_strong > 0 => arc_strong = Len(servers) + 1
          /\ \A i \in 1..Len(servers) : servers[i].state = "arc"
          /\ readers \subseteq Handlers
          /\ writer \in Handlers \cup {0})
    /\ [][framework # NoFramework => framework' = framework]_vars
    /\ [][(arc_strong > 0 /\ (pc' # pc \/ steps' # steps))
            => UNCHANGED <<framework, readers, writer, partial>>]_vars

C16_Witness ==
    /\ pc = "run"
    /\ Len(servers) = 1
    /\ arc_strong = 2
    /\ writer # 0
    /\ Count({"new_with_db"}) = 1

\* A step of the bridge closure: one that changes the dispatcher's state, or
\* one that ends the process while a message is being handled.
DispatcherStep ==
    \/ uiVars' # uiVars
    \/ disp # "Idle" /\ pc = "run" /\ pc' = "terminated"

\* C17: no step of the handling of a bridge message, whether it ends in an
\* injection, a cancellation or a fatal error, takes or releases the lock or
\* changes the framework, its handle, the servers or the negotiated port.
C17_DispatcherLeavesSharedStateAlone ==
    [][DispatcherStep
         => UNCHANGED <<readers, writer, partial, framework, arc_strong,
                        servers, target_port>>]_vars

C17_Witness ==
    /\ nInjected = 1
    /\ nDispatched = 2
    /\ panic = "Unable to parse string"
    /\ writer # 0
    /\ partial

\* C18: while the picker is open the closure holds no lock and the servers'
\* handlers go on: a handler gets the read lock unless a writer holds the
\* lock, gets the write lock when nobody holds it, and a handler that holds
\* the lock can make its next step and release it; and no handler's step moves
\* the dispatcher.
C18_ServiceRunsWhileDialogOpen ==
    /\ []((disp = "NativeDialogOpen" /\ pc = "run")
            => /\ servers # <<>>
               /\ readers \subseteq Handlers
               /\ writer \in Handlers \cup {0}
               /\ \A h \in Handlers :
                     /\ (writer = 0 /\ h \notin readers) => ENABLED BeginRead(h)
                     /\ (writer = 0 /\ readers = {}) => ENABLED BeginWrite(h)
                     /\ h \in readers => ENABLED EndRead(h)
                     /\ (writer = h /\ ~partial) => ENABLED WriteStep(h)
                     /\ (writer = h /\ partial) => ENABLED EndWrite(h))
    /\ [][lockVars' # lockVars => UNCHANGED <<uiVars, pc>>]_vars

C18_Witness ==
    /\ disp = "NativeDialogOpen"
    /\ dialogsOpen = 1
    /\ pc = "run"
    /\ writer = 2
    /\ partial
    /\ nDispatched = 1

\* C19: at most as many scripts are injected as messages are dispatched; a
\* message gets at most one script; a script is injected only inside the
\* closure, for a decoded SelectInstallDir message whose picker returned a
\* path that is not empty.
C19_InjectionsBoundedByMessages ==
    /\ [](/\ nInjected <= nDispatched
          /\ Len(injected) <= 1
          /\ injected # <<>> => Selected /\ from_str(msg).ok /\ depth = 0)
    /\ [][(nInjected' # nInjected \/ (injected' # injected /\ injected' # <<>>))
            => /\ nInjected' = nInjected + 1
               /\ injected = <<>>
               /\ Len(injected') = 1
               /\ pc = "run"
               /\ disp = "Injecting"
               /\ depth = 1
               /\ Selected
               /\ from_str(msg).ok
               /\ msg.tag = "SelectInstallDir"]_vars

C19_Witness ==
    /\ nDispatched = 2
    /\ nInjected = 1
    /\ Len(injected) = 1
    /\ disp = "Idle"
    /\ pc = "run"

====
